---- MODULE Spec2Model ----
(***************************************************************************)
(* Govt Scheme Advisor (simple RAG): the offline build (build_data.py) and *)
(* the online query path (app.py), as state machines.                      *)
(*                                                                         *)
(*   SpecChunk  chunk_text, one loop iteration per step                    *)
(*   SpecMatch  match_links_from_evidence, one links_db entry per step     *)
(*   SpecBuild  build_data.main writing the artifacts, and a reader        *)
(*   SpecQuery  the 'Find schemes' handler: retrieve, gate, answer, links  *)
(*                                                                         *)
(* Strings are sequences of one-character strings.  Scores are integers,   *)
(* in thousandths (0.22 is 220).                                           *)
(***************************************************************************)
EXTENDS Integers, Sequences, FiniteSets, TLC

VARIABLES
    \* chunk_text(text, max_chars, overlap)
    raw,          \* the argument text
    text,         \* the local text after clean_text
    max_chars,
    overlap,
    start,
    out,          \* the list of chunks built so far
    wins,         \* for each chunk of out, the window <<start, end>> it was cut at
    tick,         \* iterations of the while loop so far, modulo 2
    cpc,          \* "idle", "call", "loop", "done"
    \* match_links_from_evidence(evidence)
    links_json,   \* data/sources/scheme_links.json: NoFile, or the list it holds
    evidence,     \* the evidence list
    mi,           \* position of `for scheme in links_db`
    matched,
    mpc,          \* "idle", "call", "loop", "done"
    \* build_data.main, the files under data/, and a process loading them
    pdf_dir,      \* data/sources/pdfs_raw: file name -> document
    build_no,     \* runs of build_data.main started so far
    bi,           \* position of `for pdf in pdfs`
    rows,
    bpc,          \* where main is
    chunks_file,  \* data/extracted/chunks.jsonl
    index_file,   \* data/index/faiss.index
    meta_file,    \* data/index/meta.parquet
    rpc,          \* where load_index_and_meta is
    index,        \* what faiss.read_index returned
    meta,         \* what pd.read_parquet returned
    \* the 'Find schemes' handler
    gemini_key,   \* whether GEMINI_API_KEY is set
    top_k,        \* the "Evidence chunks" slider
    ids,          \* ids[0] of index.search
    scores,       \* scores[0] of index.search
    best_score,
    answer,       \* what st.write(answer) shows
    llm_result,   \* how the call of the external answerer went
    search_called,
    llm_called,
    match_called,
    outcome,      \* what the run of the script ended with
    exc,          \* the exception that ended it
    qpc           \* where the handler is

cvars == <<raw, text, max_chars, overlap, start, out, wins, tick, cpc>>
mvars == <<links_json, evidence, mi, matched, mpc>>

bvars == <<pdf_dir, build_no, bi, rows, bpc, chunks_file>>
fvars == <<index_file, meta_file>>
rvars == <<rpc, index, meta>>

qvars == <<gemini_key, top_k, ids, scores, best_score, answer, llm_result,
           search_called, llm_called, match_called, outcome, exc, qpc>>

vars == <<cvars, mvars, bvars, fvars, rvars, qvars>>

notChunk == <<mvars, bvars, fvars, rvars, qvars>>
notMatch == <<cvars, bvars, fvars, rvars, qvars>>
notBuild == <<cvars, mvars, rvars, qvars>>
notLoad == <<cvars, mvars, bvars, fvars, qvars>>
\* The handler reads the files and the links, and writes evidence and matched.
notQuery == <<cvars, bvars, fvars, links_json, mi, mpc>>

-----------------------------------------------------------------------------
(* Bounds *)

MaxLen == 5          \* longest raw text
MaxChars == 3        \* largest max_chars
MaxOverlap == 4      \* largest overlap

\* The list out is recorded up to this length; a call that returns never
\* reaches it (it makes at most Len(text) chunks).  A loop that runs on keeps
\* appending: past this length only tick records it.
OutCap == MaxLen + 1

Min(a, b) == IF a < b THEN a ELSE b
Max(a, b) == IF a > b THEN a ELSE b

-----------------------------------------------------------------------------
(* Text *)

NUL == "NUL"
Chars == {"a", NUL}

RECURSIVE SeqsUpTo(_, _)
SeqsUpTo(S, n) ==
    IF n = 0 THEN {<<>>}
    ELSE LET shorter == SeqsUpTo(S, n - 1)
         IN  shorter \cup {Append(s, c) : s \in {t \in shorter : Len(t) = n - 1}, c \in S}

\* text[a:b] of Python, for 0 <= a <= b <= len(text)
Slice(s, a, b) == SubSeq(s, a + 1, b)

IsSpace(c) == c = " "

\* s.replace("\x00", " ")
ReplaceNul(s) == [i \in 1..Len(s) |-> IF s[i] = NUL THEN " " ELSE s[i]]

\* re.sub(r"\s+", " ", s)
RECURSIVE CollapseSpaces(_)
CollapseSpaces(s) ==
    IF Len(s) = 0 THEN <<>>
    ELSE LET rest == CollapseSpaces(Tail(s))
         IN  IF IsSpace(Head(s)) /\ Len(s) > 1 /\ IsSpace(s[2])
             THEN rest
             ELSE <<IF IsSpace(Head(s)) THEN " " ELSE Head(s)>> \o rest

\* s.strip()
RECURSIVE Strip(_)
Strip(s) ==
    IF Len(s) = 0 THEN s
    ELSE IF IsSpace(s[1]) THEN Strip(Tail(s))
    ELSE IF IsSpace(s[Len(s)]) THEN Strip(SubSeq(s, 1, Len(s) - 1))
    ELSE s

clean_text(s) == Strip(CollapseSpaces(ReplaceNul(s)))

-----------------------------------------------------------------------------
(* chunk_text *)

\* end = min(len(text), start + max_chars)
WindowEnd(L, st, mc) == Min(L, st + mc)

\* A sign slip in the back-overlap.
NextStart_Forward(end, ov) == Max(0, end + ov)

\* Consecutive windows, no back-overlap.
NextStart_NoOverlap(end, ov) == Max(0, end)

\* start = max(0, end - overlap)
NextStart(end, ov) == Max(0, end - ov)

\* The exit test, strict.
ReachedEnd_Strict(end, L) == end > L

\* if end >= len(text): break
ReachedEnd(end, L) == end >= L

\* Entry of chunk_text: clean, then the two early returns.
ChunkCall ==
    /\ cpc = "call"
    /\ LET t == clean_text(raw)
       IN  /\ text' = t
           /\ IF Len(t) = 0
              THEN /\ out' = <<>>
                   /\ wins' = <<>>
                   /\ cpc' = "done"
              ELSE IF Len(t) <= max_chars
              THEN /\ out' = <<t>>
                   /\ wins' = << <<0, Len(t)>> >>
                   /\ cpc' = "done"
              ELSE /\ out' = <<>>
                   /\ wins' = <<>>
                   /\ cpc' = "loop"
    /\ start' = 0
    /\ UNCHANGED <<raw, max_chars, overlap, tick>>
    /\ UNCHANGED notChunk

\* One iteration of `while start < len(text)`.
ChunkLoop ==
    /\ cpc = "loop"
    /\ IF start < Len(text)
       THEN LET end == WindowEnd(Len(text), start, max_chars)
            IN  /\ out' = IF Len(out) < OutCap
                          THEN Append(out, Slice(text, start, end)) ELSE out
                /\ wins' = IF Len(wins) < OutCap
                           THEN Append(wins, <<start, end>>) ELSE wins
                /\ IF ReachedEnd(end, Len(text))
                   THEN /\ cpc' = "done"
                        /\ start' = start
                   ELSE /\ cpc' = "loop"
                        /\ start' = NextStart(end, overlap)
       ELSE /\ cpc' = "done"
            /\ UNCHANGED <<out, wins, start>>
    /\ tick' = (tick + 1) % 2
    /\ UNCHANGED <<raw, text, max_chars, overlap>>
    /\ UNCHANGED notChunk

NextChunk == ChunkCall \/ ChunkLoop

\* chunk_text on a text given by its length alone: the windows of the loop,
\* for overlap < max_chars (the loop then ends within L iterations).
RECURSIVE LoopWindows(_, _, _, _, _)
LoopWindows(L, mc, ov, st, fuel) ==
    IF fuel = 0 \/ ~(st < L) THEN <<>>
    ELSE LET end == WindowEnd(L, st, mc)
         IN  IF ReachedEnd(end, L)
             THEN << <<st, end>> >>
             ELSE << <<st, end>> >> \o LoopWindows(L, mc, ov, NextStart(end, ov), fuel - 1)

chunk_windows(L, mc, ov) ==
    IF L = 0 THEN <<>>
    ELSE IF L <= mc THEN << <<0, L>> >>
    ELSE LoopWindows(L, mc, ov, 0, L + 1)

-----------------------------------------------------------------------------
(* match_links_from_evidence *)

\* A path of the data directory: missing, or a file with its content.
NoFile == [exists |-> FALSE]
File(d) == [exists |-> TRUE, data |-> d]

\* str.lower() on the letters of the model
LowerChar(c) ==
    CASE c = "A" -> "a"
      [] c = "B" -> "b"
      [] c = "C" -> "c"
      [] OTHER -> c

lower(s) == [i \in 1..Len(s) |-> LowerChar(s[i])]

Range(q) == {q[i] : i \in 1..Len(q)}

\* `a in b` of Python on strings
IsSubstring(a, b) ==
    \E k \in 0..(Len(b) - Len(a)) : SubSeq(b, k + 1, k + Len(a)) = a

\* scheme.get(key, default)
Get(scheme, key, default) ==
    IF key \in DOMAIN scheme THEN scheme[key] ELSE default

\* load_scheme_links()
load_scheme_links(file) == IF ~file.exists THEN <<>> ELSE file.data

ev_doc_ids(ev) == {lower(ev[i].doc_id) : i \in 1..Len(ev)}
ev_files(ev) == {lower(ev[i].file_name) : i \in 1..Len(ev)}

\* file_names consulted only when the entry declares no doc_ids.
SchemeFound_ByDeclaredKey(scheme, ev) ==
    LET doc_ids == [i \in 1..Len(Get(scheme, "doc_ids", <<>>)) |->
                        lower(Get(scheme, "doc_ids", <<>>)[i])]
        file_names == [i \in 1..Len(Get(scheme, "file_names", <<>>)) |->
                        lower(Get(scheme, "file_names", <<>>)[i])]
    IN  IF Len(doc_ids) > 0
        THEN \E i \in 1..Len(doc_ids) : doc_ids[i] \in ev_doc_ids(ev)
        ELSE IF Len(file_names) > 0
        THEN \E i \in 1..Len(file_names) : file_names[i] \in ev_files(ev)
        ELSE LET scheme_name == lower(Get(scheme, "scheme_name", <<>>))
             IN  /\ Len(scheme_name) > 0
                 /\ \E f \in ev_files(ev) : IsSubstring(scheme_name, f)

\* The body of `for scheme in links_db`: the value of found.
SchemeFound(scheme, ev) ==
    LET doc_ids == [i \in 1..Len(Get(scheme, "doc_ids", <<>>)) |->
                        lower(Get(scheme, "doc_ids", <<>>)[i])]
        file_names == [i \in 1..Len(Get(scheme, "file_names", <<>>)) |->
                        lower(Get(scheme, "file_names", <<>>)[i])]
    IN  IF Len(doc_ids) > 0 /\ \E i \in 1..Len(doc_ids) : doc_ids[i] \in ev_doc_ids(ev)
        THEN TRUE
        ELSE IF Len(file_names) > 0
                /\ \E i \in 1..Len(file_names) : file_names[i] \in ev_files(ev)
        THEN TRUE
        ELSE LET scheme_name == lower(Get(scheme, "scheme_name", <<>>))
             IN  /\ Len(scheme_name) > 0
                 /\ \E f \in ev_files(ev) : IsSubstring(scheme_name, f)

\* The whole function, for its callers.
RECURSIVE MatchFrom(_, _, _)
MatchFrom(db, ev, i) ==
    IF i > Len(db) THEN <<>>
    ELSE (IF SchemeFound(db[i], ev) THEN <<db[i]>> ELSE <<>>) \o MatchFrom(db, ev, i + 1)

match_links_from_evidence(ev, file) == MatchFrom(load_scheme_links(file), ev, 1)

\* Entry: load the links, return [] when there are none.
MatchCall ==
    /\ mpc = "call"
    /\ matched' = <<>>
    /\ mi' = 1
    /\ mpc' = IF Len(load_scheme_links(links_json)) = 0 THEN "done" ELSE "loop"
    /\ UNCHANGED <<links_json, evidence>>
    /\ UNCHANGED notMatch

\* One iteration of `for scheme in links_db`, or the return after the last.
MatchLoop ==
    /\ mpc = "loop"
    /\ LET links_db == load_scheme_links(links_json)
       IN  IF mi <= Len(links_db)
           THEN /\ matched' = IF SchemeFound(links_db[mi], evidence)
                              THEN Append(matched, links_db[mi]) ELSE matched
                /\ mi' = mi + 1
                /\ mpc' = "loop"
           ELSE /\ mpc' = "done"
                /\ UNCHANGED <<matched, mi>>
    /\ UNCHANGED <<links_json, evidence>>
    /\ UNCHANGED notMatch

\* Evidence items and link entries of the link matcher's runs.
MaxEv == 2           \* longest evidence list
MaxDb == 2           \* longest links database

EvItem(d, f) == [score |-> 500, doc_id |-> d, file_name |-> f, page_no |-> 1, text |-> <<0, 1>>]

EvItems ==
    { EvItem(<<"A">>, <<"A", "b">>),
      EvItem(<<"b">>, <<"c">>),
      EvItem(<<"b">>, <<"a", "B">>) }

DocIdLists == { << <<"a">> >>, << <<"z">>, <<"B">> >> }
FileNameLists == { <<>>, << <<"a", "B">> >>, << <<"C">>, <<"z">> >> }
SchemeNames == { <<"B">>, <<"b", "A">> }

Entries ==
    { [scheme_name |-> n, doc_ids |-> d, file_names |-> f] :
          n \in SchemeNames, d \in DocIdLists, f \in FileNameLists }
    \cup { [scheme_name |-> n, file_names |-> f] : n \in SchemeNames, f \in FileNameLists }
    \cup { [file_names |-> f] : f \in FileNameLists }

NextMatch == MatchCall \/ MatchLoop

-----------------------------------------------------------------------------
(* build_data.main *)

MaxBuilds == 2       \* runs of the build

DEFAULT_MAX_CHARS == 1400
DEFAULT_OVERLAP == 200

\* Order of the characters of file names.
CharOrd(c) ==
    CASE c = "." -> 0
      [] c = "a" -> 1
      [] c = "b" -> 2
      [] c = "d" -> 3
      [] c = "f" -> 4
      [] c = "p" -> 5
      [] OTHER -> 6

RECURSIVE LexLess(_, _)
LexLess(a, b) ==
    IF Len(b) = 0 THEN FALSE
    ELSE IF Len(a) = 0 THEN TRUE
    ELSE IF CharOrd(Head(a)) # CharOrd(Head(b)) THEN CharOrd(Head(a)) < CharOrd(Head(b))
    ELSE LexLess(Tail(a), Tail(b))

\* sorted(...)
RECURSIVE sorted(_)
sorted(S) ==
    IF S = {} THEN <<>>
    ELSE LET x == CHOOSE y \in S : \A z \in S \ {y} : LexLess(y, z)
         IN  <<x>> \o sorted(S \ {x})

\* pdf.stem: the name without its last suffix
stem(name) == SubSeq(name, 1, Len(name) - 4)

\* A document is [readable, pages]; a page is the length of its cleaned text.
\* parse_pdf, for a readable document: the (page number, text) pairs of its
\* non-empty pages.
RECURSIVE PagesFrom(_, _)
PagesFrom(pages, i) ==
    IF i > Len(pages) THEN <<>>
    ELSE (IF pages[i] > 0 THEN << <<i, pages[i]>> >> ELSE <<>>) \o PagesFrom(pages, i + 1)

parse_pdf(doc) == PagesFrom(doc.pages, 1)

\* The rows of one page: one per chunk, chunk_no from 1; the text of a row is
\* the window of the page it holds.
PageRows(name, page_no, L) ==
    LET w == chunk_windows(L, DEFAULT_MAX_CHARS, DEFAULT_OVERLAP)
    IN  [k \in 1..Len(w) |->
            [doc_id |-> stem(name), file_name |-> name, page_no |-> page_no,
             chunk_no |-> k, text |-> w[k]]]

RECURSIVE RowsOfPages(_, _, _)
RowsOfPages(name, pages, j) ==
    IF j > Len(pages) THEN <<>>
    ELSE PageRows(name, pages[j][1], pages[j][2]) \o RowsOfPages(name, pages, j + 1)

DocRows(name, doc) == RowsOfPages(name, parse_pdf(doc), 1)

\* The documents of the model's source directories.
PdfA == <<"a", ".", "p", "d", "f">>
PdfB == <<"b", ".", "p", "d", "f">>
Readable(pages) == [readable |-> TRUE, pages |-> pages]
Unreadable == [readable |-> FALSE, pages |-> <<>>]
Docs == {Readable(<<2000>>), Readable(<<0, 900>>), Unreadable}
Corpora ==
    {<<>>}
    \cup {(PdfA :> a) : a \in Docs}
    \cup {(PdfB :> b) : b \in Docs}
    \cup {(PdfA :> a) @@ (PdfB :> b) : a \in Docs, b \in Docs}

pdfs == sorted(DOMAIN pdf_dir)

BuildEnded == bpc \in {"idle", "done", "exit_no_pdfs", "crashed", "killed"}

\* A run of main starts, on whatever the directory holds by then.
BuildStart ==
    /\ BuildEnded
    /\ build_no < MaxBuilds
    /\ \E dir \in Corpora :
          /\ pdf_dir' = dir
          /\ bpc' = IF DOMAIN dir = {} THEN "exit_no_pdfs" ELSE "scan"
    /\ build_no' = build_no + 1
    /\ bi' = 1
    /\ rows' = <<>>
    /\ UNCHANGED <<chunks_file, fvars>>
    /\ UNCHANGED notBuild

\* One iteration of `for pdf in pdfs`; parse_pdf raising ends main.
BuildDoc ==
    /\ bpc = "scan"
    /\ IF bi <= Len(pdfs)
       THEN IF pdf_dir[pdfs[bi]].readable
            THEN /\ rows' = rows \o DocRows(pdfs[bi], pdf_dir[pdfs[bi]])
                 /\ bi' = bi + 1
                 /\ bpc' = "scan"
            ELSE /\ bpc' = "crashed"
                 /\ UNCHANGED <<rows, bi>>
       ELSE /\ bpc' = "write_chunks"
            /\ UNCHANGED <<rows, bi>>
    /\ UNCHANGED <<pdf_dir, build_no, chunks_file, fvars>>
    /\ UNCHANGED notBuild

\* chunks.jsonl, then the embeddings: emb.shape[1] raises when there is no row.
BuildChunksAndEmbed ==
    /\ bpc = "write_chunks"
    /\ chunks_file' = File([build |-> build_no, rows |-> rows])
    /\ bpc' = IF Len(rows) = 0 THEN "crashed" ELSE "write_index"
    /\ UNCHANGED <<pdf_dir, build_no, bi, rows, fvars>>
    /\ UNCHANGED notBuild

\* faiss.write_index opens FAISS_INDEX for writing, in place.
BuildIndexOpen ==
    /\ bpc = "write_index"
    /\ index_file' = File([build |-> build_no, ntotal |-> Len(rows), complete |-> FALSE])
    /\ bpc' = "writing_index"
    /\ UNCHANGED <<pdf_dir, build_no, bi, rows, chunks_file, meta_file>>
    /\ UNCHANGED notBuild

BuildIndexClose ==
    /\ bpc = "writing_index"
    /\ index_file' = File([build |-> build_no, ntotal |-> Len(rows), complete |-> TRUE])
    /\ bpc' = "write_meta"
    /\ UNCHANGED <<pdf_dir, build_no, bi, rows, chunks_file, meta_file>>
    /\ UNCHANGED notBuild

\* to_parquet opens META_PARQUET for writing, in place.
BuildMetaOpen ==
    /\ bpc = "write_meta"
    /\ meta_file' = File([build |-> build_no, rows |-> rows, complete |-> FALSE])
    /\ bpc' = "writing_meta"
    /\ UNCHANGED <<pdf_dir, build_no, bi, rows, chunks_file, index_file>>
    /\ UNCHANGED notBuild

BuildMetaClose ==
    /\ bpc = "writing_meta"
    /\ meta_file' = File([build |-> build_no, rows |-> rows, complete |-> TRUE])
    /\ bpc' = "done"
    /\ UNCHANGED <<pdf_dir, build_no, bi, rows, chunks_file, index_file>>
    /\ UNCHANGED notBuild

\* The build process is interrupted.
BuildKilled ==
    /\ ~BuildEnded
    /\ bpc' = "killed"
    /\ UNCHANGED <<pdf_dir, build_no, bi, rows, chunks_file, fvars>>
    /\ UNCHANGED notBuild

NextBuild ==
    \/ BuildStart
    \/ BuildDoc
    \/ BuildChunksAndEmbed
    \/ BuildIndexOpen
    \/ BuildIndexClose
    \/ BuildMetaOpen
    \/ BuildMetaClose
    \/ BuildKilled

-----------------------------------------------------------------------------
(* load_index_and_meta *)

NoIndex == [build |-> 0, ntotal |-> 0, complete |-> FALSE]
NoMeta == [build |-> 0, rows |-> <<>>, complete |-> FALSE]

\* The existence test of both paths.
LoadCheck ==
    /\ rpc = "call"
    /\ rpc' = IF ~index_file.exists \/ ~meta_file.exists THEN "index_not_found" ELSE "read_index"
    /\ UNCHANGED <<index, meta>>
    /\ UNCHANGED notLoad

\* faiss.read_index; a file still being written does not parse.
LoadReadIndex ==
    /\ rpc = "read_index"
    /\ index' = index_file.data
    /\ rpc' = IF index_file.data.complete THEN "read_meta" ELSE "read_error"
    /\ UNCHANGED meta
    /\ UNCHANGED notLoad

\* pd.read_parquet
LoadReadMeta ==
    /\ rpc = "read_meta"
    /\ meta' = meta_file.data
    /\ rpc' = IF meta_file.data.complete THEN "loaded" ELSE "read_error"
    /\ UNCHANGED index
    /\ UNCHANGED notLoad

\* Another app process calls load_index_and_meta.
LoadAgain ==
    /\ rpc \in {"index_not_found", "read_error", "loaded"}
    /\ rpc' = "call"
    /\ index' = NoIndex
    /\ meta' = NoMeta
    /\ UNCHANGED notLoad

NextLoad == LoadCheck \/ LoadReadIndex \/ LoadReadMeta \/ LoadAgain

-----------------------------------------------------------------------------
(* retrieve and the 'Find schemes' handler *)

MaxTopK == 5         \* largest slider position of the model

TopKMin == 4
MIN_SCORE == 220
\* The score index.search gives a position it could not fill (the lowest float).
NEG_FILL == -1000000000

ScoreVals == {219, 220, 700}

RECURSIVE SeqsOfLen(_, _)
SeqsOfLen(S, n) ==
    IF n = 0 THEN {<<>>}
    ELSE {Append(q, x) : q \in SeqsOfLen(S, n - 1), x \in S}

\* What an exact inner-product search of N vectors can return for k: the
\* min(k, N) nearest positions, each once, by descending score, then -1 and
\* the lowest score for the positions it cannot fill.
SearchResults(N, k) ==
    LET h == Min(k, N)
        fill_ids == [i \in 1..(k - h) |-> -1]
        fill_scores == [i \in 1..(k - h) |-> NEG_FILL]
    IN  { [ids |-> p \o fill_ids, scores |-> sc \o fill_scores] :
              p \in {q \in SeqsOfLen(0..(N - 1), h) :
                        \A i, j \in 1..h : i # j => q[i] # q[j]},
              sc \in {q \in SeqsOfLen(ScoreVals, h) :
                        \A i \in 1..(h - 1) : q[i] >= q[i + 1]} }

\* meta.iloc[int(idx)]: the row (from 1) it gives, 0 when it raises IndexError.
\* A negative idx counts from the end.
IlocPos(n, idx) ==
    IF idx >= 0
    THEN (IF idx < n THEN idx + 1 ELSE 0)
    ELSE (IF -idx <= n THEN n + idx + 1 ELSE 0)

\* The loop of retrieve over ids[0].
EvidenceOf(res, m) ==
    [i \in 1..Len(res.ids) |->
        LET row == m.rows[IlocPos(Len(m.rows), res.ids[i])]
        IN  [score |-> res.scores[i], doc_id |-> row.doc_id, file_name |-> row.file_name,
             page_no |-> row.page_no, text |-> row.text]]

\* (not evidence) or (best_score < MIN_SCORE)
GateRejects(ev) ==
    Len(ev) = 0 \/ (IF Len(ev) > 0 THEN ev[1].score ELSE 0) < MIN_SCORE

KEY_MISSING == <<"G", "E", "M", "I", "N", "I", "_", "A", "P", "I", "_", "K", "E", "Y",
                 " ", "m", "i", "s", "s", "i", "n", "g">>

\* What model.generate_content and resp.text can do: raise, or give a text
\* (none and the empty text are alike under `resp.text or ""`).
Responses ==
    { [raises |-> TRUE, text |-> <<>>],
      [raises |-> FALSE, text |-> <<>>],
      [raises |-> FALSE, text |-> <<" ">>],
      [raises |-> FALSE, text |-> <<"N", "O", "T", " ", "F", "O", "U", "N", "D">>],
      [raises |-> FALSE, text |-> <<" ", "1", ")", " ", "a">>] }

\* The button is pressed: the handler calls retrieve, which calls
\* load_index_and_meta.
QueryClick ==
    /\ qpc = "idle"
    /\ qpc' = "retrieve"
    /\ rpc' = "call"
    /\ UNCHANGED <<gemini_key, top_k, ids, scores, best_score, answer, llm_result,
                   search_called, llm_called, match_called, outcome, exc>>
    /\ UNCHANGED <<index, meta, evidence, matched>>
    /\ UNCHANGED notQuery

\* load_index_and_meta raised: nothing in retrieve or in the handler catches it.
QueryLoadRaised ==
    /\ qpc = "retrieve"
    /\ rpc \in {"index_not_found", "read_error"}
    /\ outcome' = "exception"
    /\ exc' = IF rpc = "index_not_found"
              THEN "RuntimeError: Index not found. Run: py build_data.py"
              ELSE "read error"
    /\ qpc' = "done"
    /\ UNCHANGED <<gemini_key, top_k, ids, scores, best_score, answer, llm_result,
                   search_called, llm_called, match_called>>
    /\ UNCHANGED <<rvars, evidence, matched>>
    /\ UNCHANGED notQuery

\* The rest of retrieve: the search, and the join with the metadata.
QuerySearch ==
    /\ qpc = "retrieve"
    /\ rpc = "loaded"
    /\ \E res \in SearchResults(index.ntotal, top_k) :
          /\ ids' = res.ids
          /\ scores' = res.scores
          /\ IF \E i \in 1..top_k : IlocPos(Len(meta.rows), res.ids[i]) = 0
             THEN /\ outcome' = "exception"
                  /\ exc' = "IndexError"
                  /\ qpc' = "done"
                  /\ UNCHANGED evidence
             ELSE /\ evidence' = EvidenceOf(res, meta)
                  /\ qpc' = "gate"
                  /\ UNCHANGED <<outcome, exc>>
    /\ search_called' = TRUE
    /\ UNCHANGED <<gemini_key, top_k, best_score, answer, llm_result, llm_called, match_called>>
    /\ UNCHANGED <<rvars, matched>>
    /\ UNCHANGED notQuery

\* best_score and the threshold test; NOT FOUND and st.stop() below it.
QueryGate ==
    /\ qpc = "gate"
    /\ best_score' = IF Len(evidence) > 0 THEN evidence[1].score ELSE 0
    /\ IF GateRejects(evidence)
       THEN /\ outcome' = "not_found"
            /\ qpc' = "done"
       ELSE /\ qpc' = "answer"
            /\ UNCHANGED outcome
    /\ UNCHANGED <<gemini_key, top_k, ids, scores, answer, llm_result,
                   search_called, llm_called, match_called, exc>>
    /\ UNCHANGED <<rvars, evidence, matched>>
    /\ UNCHANGED notQuery

\* answer = llm_answer(profile, evidence); st.write(answer)
QueryAnswer ==
    /\ qpc = "answer"
    /\ llm_called' = TRUE
    /\ IF ~gemini_key
       THEN /\ answer' = KEY_MISSING
            /\ llm_result' = "key_missing"
            /\ qpc' = "links"
            /\ UNCHANGED <<outcome, exc>>
       ELSE \E resp \in Responses :
              IF resp.raises
              THEN /\ llm_result' = "raised"
                   /\ outcome' = "exception"
                   /\ exc' = "raised by generate_content"
                   /\ qpc' = "done"
                   /\ UNCHANGED answer
              ELSE /\ answer' = Strip(resp.text)
                   /\ llm_result' = IF Len(Strip(resp.text)) = 0 THEN "no_text" ELSE "text"
                   /\ qpc' = "links"
                   /\ UNCHANGED <<outcome, exc>>
    /\ UNCHANGED <<gemini_key, top_k, ids, scores, best_score, search_called, match_called>>
    /\ UNCHANGED <<rvars, evidence, matched>>
    /\ UNCHANGED notQuery

\* matched_links = match_links_from_evidence(evidence), the links and the
\* evidence viewer.
QueryLinks ==
    /\ qpc = "links"
    /\ match_called' = TRUE
    /\ matched' = match_links_from_evidence(evidence, links_json)
    /\ outcome' = "answered"
    /\ qpc' = "done"
    /\ UNCHANGED <<gemini_key, top_k, ids, scores, best_score, answer, llm_result,
                   search_called, llm_called, exc>>
    /\ UNCHANGED <<rvars, evidence>>
    /\ UNCHANGED notQuery

NextQuery ==
    \/ QueryClick
    \/ LoadCheck
    \/ LoadReadIndex
    \/ LoadReadMeta
    \/ QueryLoadRaised
    \/ QuerySearch
    \/ QueryGate
    \/ QueryAnswer
    \/ QueryLinks

\* main's scan as a whole, for a directory every document of which is readable.
RECURSIVE ScanFrom(_, _, _)
ScanFrom(dir, names, i) ==
    IF i > Len(names) THEN <<>>
    ELSE DocRows(names[i], dir[names[i]]) \o ScanFrom(dir, names, i + 1)

\* The two artifacts as build number b leaves them for the rows r.
IndexFileOf(b, r) == File([build |-> b, ntotal |-> Len(r), complete |-> TRUE])
MetaFileOf(b, r) == File([build |-> b, rows |-> r, complete |-> TRUE])

\* The directories the queried indexes were built from, and the links files.
QueryCorpora ==
    { (PdfB :> Readable(<<2000>>)),
      (PdfA :> Readable(<<3000>>)) @@ (PdfB :> Readable(<<0, 2000>>)) }

QueryLinksFiles ==
    { NoFile,
      File(<< [scheme_name |-> <<"A">>], [scheme_name |-> <<"z">>, doc_ids |-> << <<"B">> >>] >>) }

-----------------------------------------------------------------------------
(* Specifications *)

\* chunk_text is called on any text, with any max_chars >= 1 and overlap >= 0.
ChunkInit ==
    /\ raw \in SeqsUpTo(Chars, MaxLen)
    /\ max_chars \in 1..MaxChars
    /\ overlap \in 0..MaxOverlap
    /\ text = <<>>
    /\ start = 0
    /\ out = <<>>
    /\ wins = <<>>
    /\ tick = 0
    /\ cpc = "call"
    /\ links_json = NoFile
    /\ evidence = <<>>
    /\ mi = 1
    /\ matched = <<>>
    /\ mpc = "idle"
    /\ pdf_dir = <<>>
    /\ build_no = 0
    /\ bi = 1
    /\ rows = <<>>
    /\ bpc = "idle"
    /\ chunks_file = NoFile
    /\ index_file = NoFile
    /\ meta_file = NoFile
    /\ rpc = "idle"
    /\ index = NoIndex
    /\ meta = NoMeta
    /\ gemini_key = FALSE
    /\ top_k = TopKMin
    /\ ids = <<>>
    /\ scores = <<>>
    /\ best_score = 0
    /\ answer = <<>>
    /\ llm_result = "none"
    /\ search_called = FALSE
    /\ llm_called = FALSE
    /\ match_called = FALSE
    /\ outcome = "none"
    /\ exc = "none"
    /\ qpc = "idle"

\* The interpreter keeps executing the function it is in.
SpecChunk == ChunkInit /\ [][NextChunk]_vars /\ WF_vars(NextChunk)

\* match_links_from_evidence is called on any evidence, with any links file.
MatchInit ==
    /\ raw = <<>>
    /\ max_chars = 1
    /\ overlap = 0
    /\ text = <<>>
    /\ start = 0
    /\ out = <<>>
    /\ wins = <<>>
    /\ tick = 0
    /\ cpc = "idle"
    /\ links_json \in {NoFile} \cup {File(db) : db \in SeqsUpTo(Entries, MaxDb)}
    /\ evidence \in SeqsUpTo(EvItems, MaxEv)
    /\ mi = 1
    /\ matched = <<>>
    /\ mpc = "call"
    /\ pdf_dir = <<>>
    /\ build_no = 0
    /\ bi = 1
    /\ rows = <<>>
    /\ bpc = "idle"
    /\ chunks_file = NoFile
    /\ index_file = NoFile
    /\ meta_file = NoFile
    /\ rpc = "idle"
    /\ index = NoIndex
    /\ meta = NoMeta
    /\ gemini_key = FALSE
    /\ top_k = TopKMin
    /\ ids = <<>>
    /\ scores = <<>>
    /\ best_score = 0
    /\ answer = <<>>
    /\ llm_result = "none"
    /\ search_called = FALSE
    /\ llm_called = FALSE
    /\ match_called = FALSE
    /\ outcome = "none"
    /\ exc = "none"
    /\ qpc = "idle"

SpecMatch == MatchInit /\ [][NextMatch]_vars

\* Nothing is built yet; an app process is about to load the artifacts.
BuildInit ==
    /\ raw = <<>>
    /\ max_chars = 1
    /\ overlap = 0
    /\ text = <<>>
    /\ start = 0
    /\ out = <<>>
    /\ wins = <<>>
    /\ tick = 0
    /\ cpc = "idle"
    /\ links_json = NoFile
    /\ evidence = <<>>
    /\ mi = 1
    /\ matched = <<>>
    /\ mpc = "idle"
    /\ pdf_dir = <<>>
    /\ build_no = 0
    /\ bi = 1
    /\ rows = <<>>
    /\ bpc = "idle"
    /\ chunks_file = NoFile
    /\ index_file = NoFile
    /\ meta_file = NoFile
    /\ rpc = "call"
    /\ index = NoIndex
    /\ meta = NoMeta
    /\ gemini_key = FALSE
    /\ top_k = TopKMin
    /\ ids = <<>>
    /\ scores = <<>>
    /\ best_score = 0
    /\ answer = <<>>
    /\ llm_result = "none"
    /\ search_called = FALSE
    /\ llm_called = FALSE
    /\ match_called = FALSE
    /\ outcome = "none"
    /\ exc = "none"
    /\ qpc = "idle"

\* Builds, one after the other, and app processes loading the artifacts at
\* any moment.
SpecBuild == BuildInit /\ [][NextBuild \/ NextLoad]_vars

\* The app starts on the artifacts of a completed build, either of which may be
\* missing.
QueryInit ==
    /\ raw = <<>>
    /\ max_chars = 1
    /\ overlap = 0
    /\ text = <<>>
    /\ start = 0
    /\ out = <<>>
    /\ wins = <<>>
    /\ tick = 0
    /\ cpc = "idle"
    /\ links_json \in QueryLinksFiles
    /\ evidence = <<>>
    /\ mi = 1
    /\ matched = <<>>
    /\ mpc = "idle"
    /\ pdf_dir = <<>>
    /\ build_no = 0
    /\ bi = 1
    /\ rows = <<>>
    /\ bpc = "idle"
    /\ chunks_file = NoFile
    /\ \E d \in QueryCorpora :
          /\ index_file \in {NoFile, IndexFileOf(1, ScanFrom(d, sorted(DOMAIN d), 1))}
          /\ meta_file \in {NoFile, MetaFileOf(1, ScanFrom(d, sorted(DOMAIN d), 1))}
    /\ rpc = "idle"
    /\ index = NoIndex
    /\ meta = NoMeta
    /\ gemini_key \in BOOLEAN
    /\ top_k \in TopKMin..MaxTopK
    /\ ids = <<>>
    /\ scores = <<>>
    /\ best_score = 0
    /\ answer = <<>>
    /\ llm_result = "none"
    /\ search_called = FALSE
    /\ llm_called = FALSE
    /\ match_called = FALSE
    /\ outcome = "none"
    /\ exc = "none"
    /\ qpc = "idle"

SpecQuery == QueryInit /\ [][NextQuery]_vars

-----------------------------------------------------------------------------
(* Claims on chunk_text (SpecChunk) *)

CeilDiv(a, b) == (a + b - 1) \div b

\* The call has returned from the windowing loop, in the case the spec's
\* chunking properties are about.
ChunkedLong ==
    /\ cpc = "done"
    /\ Len(text) > max_chars
    /\ overlap < max_chars

\* C3: for a cleaned text longer than max_chars and 0 <= overlap < max_chars, the
\* chunks cover the text with no gap: the first window starts at 0, the last
\* ends at L, every position of [0, L) lies in some window, and each chunk is the
\* text of its window.
C3_Coverage ==
    ChunkedLong =>
        /\ Len(out) >= 1
        /\ Len(wins) = Len(out)
        /\ wins[1][1] = 0
        /\ wins[Len(wins)][2] = Len(text)
        /\ \A i \in 1..Len(out) : out[i] = Slice(text, wins[i][1], wins[i][2])
        /\ \A p \in 0..(Len(text) - 1) :
              \E i \in 1..Len(wins) :
                  /\ wins[i][1] <= p
                  /\ p < wins[i][2]
                  /\ out[i][p - wins[i][1] + 1] = text[p + 1]

C3_Witness ==
    /\ ChunkedLong
    /\ overlap >= 1
    /\ Len(out) >= 3
    /\ text = clean_text(text)

\* C4 as stated: chunk_text returns for every text, every max_chars >= 1 and every
\* overlap >= 0.
C4_Original == <>(cpc = "done")

\* C4, amended: chunk_text returns whenever overlap < max_chars, and for any
\* overlap when the cleaned text is no longer than max_chars; a non-empty text
\* no longer than max_chars gives exactly one chunk (so does a text shorter
\* than overlap, under the defaults).
C4_Terminates ==
    /\ (overlap < max_chars \/ Len(clean_text(raw)) <= max_chars) => <>(cpc = "done")
    /\ []((cpc = "done" /\ Len(text) >= 1 /\ Len(text) <= max_chars) => Len(out) = 1)

C4_Witness ==
    /\ cpc = "done"
    /\ Len(text) >= 1
    /\ Len(text) < overlap
    /\ Len(out) = 1

\* The document of the spec's chunking scenario.
PensionGo == <<"p", "e", "n", "s", "i", "o", "n", "_", "g", "o", ".", "p", "d", "f">>

\* C9: for a cleaned text longer than max_chars and 0 <= overlap < max_chars,
\* chunk_text returns ceil((L - max_chars) / (max_chars - overlap)) + 1 chunks;
\* chunk n+1 starts at the end of chunk n minus overlap; every chunk but the last
\* has max_chars characters and the last at most max_chars.  With the defaults
\* (1400, 200), the one 2000-character page of pension_go.pdf gives 2 rows,
\* chunk_no 1 and 2.
C9_ChunkCount ==
    /\ LET r == PageRows(PensionGo, 1, 2000)
       IN  /\ Len(r) = 2
           /\ Len(r) = CeilDiv(2000 - DEFAULT_MAX_CHARS, DEFAULT_MAX_CHARS - DEFAULT_OVERLAP) + 1
           /\ r[1].chunk_no = 1 /\ r[2].chunk_no = 2
           /\ r[1].doc_id = <<"p", "e", "n", "s", "i", "o", "n", "_", "g", "o">>
    /\ ChunkedLong =>
        LET n == Len(out)
        IN  /\ n = CeilDiv(Len(text) - max_chars, max_chars - overlap) + 1
            /\ Len(wins) = n
            /\ \A i \in 1..(n - 1) :
                  /\ Len(out[i]) = max_chars
                  /\ wins[i + 1][1] = wins[i][2] - overlap
            /\ Len(out[n]) >= 1
            /\ Len(out[n]) <= max_chars

C9_Witness ==
    /\ ChunkedLong
    /\ overlap >= 1
    /\ Len(out) >= 2
    /\ Len(out[Len(out)]) < max_chars
-----------------------------------------------------------------------------
(* Claims on match_links_from_evidence (SpecMatch) *)

\* Rule 1: one of the entry's doc_ids equals, ignoring case, some evidence doc_id.
Rule1(scheme, ev) ==
    \E d \in Range(Get(scheme, "doc_ids", <<>>)) :
        \E i \in 1..Len(ev) : lower(d) = lower(ev[i].doc_id)

\* Rule 2: one of its file_names equals, ignoring case, some evidence file_name.
Rule2(scheme, ev) ==
    \E f \in Range(Get(scheme, "file_names", <<>>)) :
        \E i \in 1..Len(ev) : lower(f) = lower(ev[i].file_name)

\* Rule 3: its lowercased scheme_name is non-empty and a substring of some
\* evidence item's lowercased file_name.
Rule3(scheme, ev) ==
    /\ Get(scheme, "scheme_name", <<>>) # <<>>
    /\ \E i \in 1..Len(ev) :
           IsSubstring(lower(Get(scheme, "scheme_name", <<>>)), lower(ev[i].file_name))

AnyRule(scheme) == Rule1(scheme, evidence) \/ Rule2(scheme, evidence) \/ Rule3(scheme, evidence)

\* C2: an entry of the links database is in the result of
\* match_links_from_evidence if and only if rule 1, rule 2 or rule 3 holds for
\* it, each rule sufficing whatever the entry's other keys hold; the result is
\* those entries in database order.
C2_MatchIffAnyRule ==
    mpc = "done" =>
        LET links_db == load_scheme_links(links_json)
        IN  /\ \A i \in 1..Len(links_db) :
                   (links_db[i] \in Range(matched)) <=> AnyRule(links_db[i])
            /\ matched = SelectSeq(links_db, AnyRule)

\* A file_names match on an entry whose doc_ids are declared and match nothing,
\* next to an entry no rule matches.
C2_Witness ==
    /\ mpc = "done"
    /\ Len(matched) = 1
    /\ Len(load_scheme_links(links_json)) = 2
    /\ "doc_ids" \in DOMAIN matched[1]
    /\ ~Rule1(matched[1], evidence)
    /\ Rule2(matched[1], evidence)
    /\ ~Rule3(matched[1], evidence)

-----------------------------------------------------------------------------
(* Claims on the build and the artifacts (SpecBuild) *)

\* C5: whenever load_index_and_meta has loaded the artifacts, the index and the
\* metadata it read come from the same completed build, the index's vector
\* count equals the metadata's row count, and it never reads a file that is
\* still being written.
C5_LoadedFromOneBuild ==
    /\ rpc # "read_error"
    /\ rpc = "loaded" =>
          /\ index.complete /\ meta.complete
          /\ index.build = meta.build
          /\ index.ntotal = Len(meta.rows)

SomeUnreadable == \E n \in DOMAIN pdf_dir : ~pdf_dir[n].readable
ReadableNames == {n \in DOMAIN pdf_dir : pdf_dir[n].readable}

RECURSIVE RowsOfNames(_)
RowsOfNames(names) ==
    IF Len(names) = 0 THEN <<>>
    ELSE DocRows(Head(names), pdf_dir[Head(names)]) \o RowsOfNames(Tail(names))

\* C8: a run of main on a directory holding a document whose extraction fails
\* and a readable document with text does not end on the failure: it completes,
\* and the persisted rows are the chunks of the readable documents, in sorted
\* file order.
C8_SkipsUnreadable ==
    (/\ bpc \in {"done", "crashed"}
     /\ SomeUnreadable
     /\ Len(RowsOfNames(sorted(ReadableNames))) > 0)
        => /\ bpc = "done"
           /\ meta_file.exists
           /\ meta_file.data.build = build_no
           /\ meta_file.data.rows = RowsOfNames(sorted(ReadableNames))

-----------------------------------------------------------------------------
(* Claims on the query path (SpecQuery) *)

\* retrieve returned an evidence list to the handler.
Retrieved == search_called /\ qpc \in {"gate", "answer", "links", "done"} /\ exc # "IndexError"

GatePassed == Len(evidence) > 0 /\ evidence[1].score >= MIN_SCORE

\* C1: in a query whose retrieve returned, llm_answer is called and
\* match_links_from_evidence runs if and only if the evidence is non-empty and
\* its first score is >= MIN_SCORE; otherwise the query ends NOT FOUND with
\* the best score (0 for an empty list) and neither is called.
C1_GateDecidesCalls ==
    (qpc = "done" /\ Retrieved) =>
        /\ (llm_called /\ match_called) <=> GatePassed
        /\ ~GatePassed =>
              /\ outcome = "not_found"
              /\ best_score = (IF Len(evidence) > 0 THEN evidence[1].score ELSE 0)
              /\ ~llm_called
              /\ ~match_called

\* C6: every non-success of the answerer (no key, generate_content raising, no
\* text in the response) ends with a non-empty message shown as the answer;
\* never the empty string, never an exception that ends the query.
C6_FailureIsMessage ==
    (qpc \in {"links", "done"} /\ llm_result \in {"key_missing", "raised", "no_text"}) =>
        /\ outcome # "exception"
        /\ Len(answer) > 0

\* C7: with the index file or the metadata file missing, the query ends in the
\* IndexNotBuilt outcome, recovered by the handler, not in an exception reaching
\* the user; no search, answerer call or link matching happens.
C7_IndexNotBuiltOutcome ==
    (qpc = "done" /\ (~index_file.exists \/ ~meta_file.exists)) =>
        /\ outcome = "index_not_built"
        /\ ~search_called
        /\ ~llm_called
        /\ ~match_called

\* C10: every evidence item retrieve returns is the metadata row at a position
\* the search found, with that position's score; no position appears twice;
\* with fewer vectors than top_k only that many items are returned, none from a
\* -1 position.
C10_EvidenceFromFoundPositions ==
    Retrieved =>
        /\ Len(evidence) = Min(top_k, index.ntotal)
        /\ \A i \in 1..Len(evidence) :
              /\ ids[i] >= 0
              /\ ids[i] < index.ntotal
              /\ evidence[i].score = scores[i]
              /\ evidence[i].doc_id = meta.rows[ids[i] + 1].doc_id
              /\ evidence[i].file_name = meta.rows[ids[i] + 1].file_name
              /\ evidence[i].page_no = meta.rows[ids[i] + 1].page_no
              /\ evidence[i].text = meta.rows[ids[i] + 1].text
        /\ \A i, j \in 1..Len(evidence) : i # j => ids[i] # ids[j]

====
